---- MODULE Spec2Model ----
(***************************************************************************)
(* A model of basketry/sorbet-http-client: the generator of Ruby HTTP      *)
(* client stubs (http-client-factory.ts) and of the wire/domain mapper     *)
(* module (mapper-factory, held in index.ts), together with the runtime    *)
(* behaviour of the Ruby text the mapper generator emits.                  *)
(*                                                                         *)
(* Emitted Ruby is kept as structured records (one record per emitted      *)
(* statement or expression) instead of text.  An optional value is a       *)
(* sequence of length 0 (absent) or 1.  A JavaScript Map is a sequence of  *)
(* <<key, value>> pairs in insertion order.                                *)
(***************************************************************************)
EXTENDS Integers, Sequences, FiniteSets, TLC

VARIABLES
    service,             \* the service IR handed to the generator
    options,             \* the generator options (options.sorbet.types)
    pc,                  \* position in the generator of index.ts
    clientFiles,         \* result of generateClients: one entry per interface
    mapperFile,          \* result of generateMapper: the emitted functions
    httpPathCache,       \* WeakMap<Service, Map<string, [HttpMethod, HttpPath]>>
    httpParameterCache,  \* WeakMap<Service, Map<string, HttpParameter>>
    call,                \* last call of an emitted mapper function, with its result
    pool,                \* the live Service objects, by object identity
    builds,              \* per Service object: how often each index was built
    resolved             \* last call of getHttp / getHttpParameter, with its result

vars == <<service, options, pc, clientFiles, mapperFile,
          httpPathCache, httpParameterCache, call, pool, builds, resolved>>

(***************************************************************************)
(* Bounds of the model.                                                    *)
(***************************************************************************)
MaxSigParams == 3    \* parameters per method in the signature family
MaxParams == 2       \* parameters per method in the binding family
MaxSegs == 2         \* path segments after the leading "/" in the URI family
MaxProps == 2        \* properties of the type the mapper functions are run on

None == <<>>
Some(x) == <<x>>
IsSome(o) == Len(o) > 0

RECURSIVE Concat(_)
Concat(ss) == IF Len(ss) = 0 THEN <<>> ELSE Head(ss) \o Concat(Tail(ss))

(***************************************************************************)
(* JavaScript Map: insertion-ordered, set() on a present key keeps its     *)
(* position and replaces its value.                                        *)
(***************************************************************************)
MapHas(m, k) == \E i \in 1..Len(m) : m[i][1] = k
MapGet(m, k) ==
    IF MapHas(m, k)
    THEN Some(m[CHOOSE i \in 1..Len(m) : m[i][1] = k][2])
    ELSE None
MapSet(m, k, v) ==
    IF MapHas(m, k)
    THEN [i \in 1..Len(m) |-> IF m[i][1] = k THEN <<k, v>> ELSE m[i]]
    ELSE Append(m, <<k, v>>)

RECURSIVE MapFrom(_, _)
MapFrom(entries, m) ==
    IF Len(entries) = 0 THEN m
    ELSE MapFrom(Tail(entries), MapSet(m, entries[1][1], entries[1][2]))

(***************************************************************************)
(* case.snake and case.pascal on the names the model draws its inputs      *)
(* from.                                                                   *)
(***************************************************************************)
snake(s) ==
    CASE s = "pageSize" -> "page_size"
      [] s = "getWidget" -> "get_widget"
      [] s = "listWidgets" -> "list_widgets"
      [] s = "Widget" -> "widget"
      [] s = "Color" -> "color"
      [] s = "Tag" -> "tag"
      [] s = "apiRoot" -> "api_root"
      [] s = "apiKey" -> "api_key"
      [] s = "date-time" -> "date_time"
      [] OTHER -> s

pascal(s) ==
    CASE s = "get" -> "Get"
      [] s = "put" -> "Put"
      [] OTHER -> s

apiRoot == snake("apiRoot")

(***************************************************************************)
(* Helpers of the basketry and @basketry/sorbet packages, as the           *)
(* generator consumes them.                                                *)
(***************************************************************************)
isRequired(p) == "required" \in p.rules
buildParameterName(p) == snake(p.name)
buildMethodName(m) == snake(m.name)
buildTypeName(t) == [typeName |-> t.typeName, isArray |-> t.isArray]

\* allHttpPaths: every HttpPath of every interface, in declaration order.
allHttpPaths(svc) ==
    Concat([i \in 1..Len(svc.interfaces) |-> svc.interfaces[i].http])

\* The HttpMethod records of the service, each with its path.
HttpPathEntries(svc) ==
    LET paths == allHttpPaths(svc)
    IN  Concat([i \in 1..Len(paths) |->
                  [j \in 1..Len(paths[i].methods) |->
                     <<paths[i].methods[j], paths[i]>>]])

\* allParameters: every parameter of every method with the HttpParameter of
\* the same name that the method's HttpMethod lists, absent when it lists
\* none of that name.
HttpParameterOf(svc, methodName, paramName) ==
    LET es == HttpPathEntries(svc)
        hps == Concat([i \in 1..Len(es) |->
                         IF es[i][1].name = methodName
                         THEN es[i][1].parameters ELSE <<>>])
        hit == SelectSeq(hps, LAMBDA h : h.name = paramName)
    IN  IF Len(hit) = 0 THEN None ELSE Some(hit[1])

allMethods(svc) ==
    Concat([i \in 1..Len(svc.interfaces) |-> svc.interfaces[i].methods])

allParameters(svc) ==
    LET ms == allMethods(svc)
    IN  Concat([i \in 1..Len(ms) |->
                  [j \in 1..Len(ms[i].parameters) |->
                     [method |-> ms[i],
                      parameter |-> ms[i].parameters[j],
                      httpParameter |->
                          HttpParameterOf(svc, ms[i].name,
                                          ms[i].parameters[j].name)]]])

(***************************************************************************)
(* sortParameters: Array.prototype.sort (stable) under the comparator      *)
(* (isRequired(a) ? 0 : 1) - (isRequired(b) ? 0 : 1).                      *)
(***************************************************************************)
compareRequired(a, b) ==
    (IF isRequired(a) THEN 0 ELSE 1) - (IF isRequired(b) THEN 0 ELSE 1)

\* Insert x after the last element it does not sort before (stable).
RECURSIVE InsertSorted(_, _)
InsertSorted(sorted, x) ==
    IF Len(sorted) = 0 THEN <<x>>
    ELSE IF compareRequired(x, sorted[Len(sorted)]) >= 0
         THEN Append(sorted, x)
         ELSE Append(InsertSorted(SubSeq(sorted, 1, Len(sorted) - 1), x),
                     sorted[Len(sorted)])

RECURSIVE StableSort(_, _)
StableSort(rest, sorted) ==
    IF Len(rest) = 0 THEN sorted
    ELSE StableSort(Tail(rest), InsertSorted(sorted, Head(rest)))

sortParametersReversed(parameters) ==
    SelectSeq(parameters, LAMBDA p : ~isRequired(p))
        \o SelectSeq(parameters, LAMBDA p : isRequired(p))

sortParameters(parameters) == StableSort(parameters, <<>>)

(***************************************************************************)
(* The Binding Resolver: getHttp and getHttpParameter with their caches.   *)
(***************************************************************************)
\* The map getHttp builds on a cache miss.
HttpPathMap(svc) ==
    LET es == HttpPathEntries(svc)
    IN  MapFrom([i \in 1..Len(es) |-> <<snake(es[i][1].name), es[i]>>], <<>>)

httpPathCacheAfter(cache, svc) ==
    IF svc.id \in DOMAIN cache THEN cache
    ELSE (svc.id :> HttpPathMap(svc)) @@ cache

\* The number of times a call of getHttp builds the map.
httpPathBuilds(cache, svc) == IF svc.id \in DOMAIN cache THEN 0 ELSE 1

\* An index that is not kept per Service object: the one built first
\* answers for every service.
getHttpSharedIndex(cache, svc, methodName) ==
    LET after == httpPathCacheAfter(cache, svc)
        first == IF DOMAIN cache = {} THEN svc.id
                 ELSE CHOOSE id \in DOMAIN cache : TRUE
    IN  MapGet(after[first], snake(methodName))

getHttp(cache, svc, methodName) ==
    MapGet(httpPathCacheAfter(cache, svc)[svc.id], snake(methodName))

\* A key that leaves the parameter out.
keyMethodOnly(m, p) == <<snake(m), "|||">>

key(m, p) == <<snake(m), "|||", snake(p)>>

\* The map getHttpParameter builds on a cache miss.
HttpParameterMap(svc) ==
    LET ps == SelectSeq(allParameters(svc),
                        LAMBDA c : IsSome(c.httpParameter))
    IN  MapFrom([i \in 1..Len(ps) |->
                   <<key(ps[i].method.name, ps[i].httpParameter[1].name),
                     ps[i].httpParameter[1]>>], <<>>)

httpParameterCacheAfter(cache, svc) ==
    IF svc.id \in DOMAIN cache THEN cache
    ELSE (svc.id :> HttpParameterMap(svc)) @@ cache

\* The number of times a call of getHttpParameter builds the map.
httpParameterBuilds(cache, svc) == IF svc.id \in DOMAIN cache THEN 0 ELSE 1

getHttpParameter(cache, svc, methodName, parameterName) ==
    MapGet(httpParameterCacheAfter(cache, svc)[svc.id],
           key(methodName, parameterName))

(***************************************************************************)
(* The Client Generator (class Builder of http-client-factory.ts).         *)
(* hc and pc_ are the two caches as they stand when the call is made.      *)
(***************************************************************************)
\* new Map(method.parameters.map(p => [p.name.value, [p, getHttpParameter(..)]]))
paramsByName(pcache, svc, method) ==
    MapFrom([i \in 1..Len(method.parameters) |->
               <<method.parameters[i].name,
                 [param |-> method.parameters[i],
                  httpParam |-> getHttpParameter(pcache, svc, method.name,
                                                 method.parameters[i].name)]>>],
            <<>>)

comment(text) ==
    IF Len(text) = 0 THEN <<>> ELSE <<[kind |-> "comment", text |-> text[1]]>>

buildSignatureParameters(method) ==
    LET sorted == sortParameters(method.parameters)
    IN  [i \in 1..Len(sorted) |->
           [name |-> buildParameterName(sorted[i]),
            typeName |-> buildTypeName(sorted[i]),
            nilable |-> ~isRequired(sorted[i]),
            comma |-> i /= Len(method.parameters)]]

buildSignature(method) ==
    <<[kind |-> "sig",
       params |-> IF Len(method.parameters) > 0
                  THEN buildSignatureParameters(method) ELSE <<>>,
       returns |-> IF IsSome(method.returnType)
                   THEN Some(buildTypeName(method.returnType[1])) ELSE None]>>

\* A path segment is a sequence of tokens: ":" , "{" , "}" and names.
getParamNameColonOnly(seg) ==
    IF Len(seg) > 0 /\ seg[1] = ":" THEN Tail(seg) ELSE <<>>

getParamName(seg) ==
    IF Len(seg) > 0 /\ seg[1] = ":" THEN Tail(seg)
    ELSE IF Len(seg) > 0 /\ seg[1] = "{" /\ seg[Len(seg)] = "}"
         THEN SubSeq(seg, 2, Len(seg) - 1)
         ELSE <<>>

\* One segment of the subpath of buildUri.
buildUriSegment(map, seg) ==
    LET paramName == getParamName(seg)
        hit == IF Len(paramName) = 1 THEN MapGet(map, paramName[1]) ELSE None
    IN  IF Len(paramName) = 0 THEN seg
        ELSE IF Len(hit) = 0 THEN seg
        ELSE IF Len(hit[1].httpParam) = 0 THEN seg
        ELSE IF hit[1].httpParam[1].in /= "path" THEN seg
        ELSE <<"#{", buildParameterName(hit[1].param), "}">>

buildUri(pcache, svc, httpPath, method) ==
    LET map == paramsByName(pcache, svc, method)
    IN  [apiRoot |-> apiRoot,
         majorVersion |-> svc.majorVersion,
         subpath |-> [i \in 1..Len(httpPath.path) |->
                        buildUriSegment(map, httpPath.path[i])]]

\* A query hash that takes every bound parameter, whatever its location.
buildQueryAnyLocation(pcache, svc, method) ==
    LET byName == paramsByName(pcache, svc, method)
        map == SelectSeq(byName, LAMBDA e : IsSome(e[2].httpParam))
    IN  IF Len(map) > 0
        THEN <<[kind |-> "query",
                entries |-> [i \in 1..Len(map) |->
                               [key |-> map[i][1],
                                value |-> buildParameterName(map[i][2].param)]],
                compact |-> TRUE]>>
        ELSE <<>>

buildQuery(pcache, svc, method) ==
    LET byName == paramsByName(pcache, svc, method)
        map == SelectSeq(byName,
                 LAMBDA e : IsSome(e[2].httpParam)
                            /\ e[2].httpParam[1].in = "query")
    IN  IF Len(map) > 0
        THEN <<[kind |-> "query",
                entries |-> [i \in 1..Len(map) |->
                               [key |-> map[i][1],
                                value |-> buildParameterName(map[i][2].param)]],
                compact |-> TRUE]>>
        ELSE <<>>

isApiKeyScheme(scheme) == scheme.type = "apiKey"

buildHeaders(pcache, svc, method) ==
    LET byName == paramsByName(pcache, svc, method)
        schemes == Concat(method.security)
        keys == SelectSeq(schemes,
                  LAMBDA s : isApiKeyScheme(s) /\ s.in = "header")
        hdrs == SelectSeq(byName,
                  LAMBDA e : IsSome(e[2].httpParam)
                             /\ e[2].httpParam[1].in = "header")
    IN  [i \in 1..Len(keys) |->
           [kind |-> "header", name |-> keys[i].parameter,
            value |-> <<"@", snake(keys[i].name)>>]]
        \o [i \in 1..Len(hdrs) |->
              [kind |-> "header", name |-> hdrs[i][2].httpParam[1].name,
               value |-> <<buildParameterName(hdrs[i][2].param)>>]]

buildBody(pcache, svc, method) ==
    LET byName == paramsByName(pcache, svc, method)
        bodies == SelectSeq(byName,
                    LAMBDA e : IsSome(e[2].httpParam)
                               /\ e[2].httpParam[1].in = "body")
    IN  [i \in 1..Len(bodies) |->
           [kind |-> "body",
            fn |-> <<"map", snake(bodies[i][2].param.typeName), "to_dto">>,
            arg |-> buildParameterName(bodies[i][2].param),
            guarded |-> ~isRequired(bodies[i][2].param)]]

buildReturn(method) ==
    IF IsSome(method.returnType)
    THEN <<[kind |-> "return",
            fn |-> <<"map_dto_to", snake(method.returnType[1].typeName)>>]>>
    ELSE <<>>

\* The body assignment yielded after the exchange statement.
buildDefinitionBodyLast(hc, pcache, svc, method) ==
    LET http == getHttp(hc, svc, method.name)
    IN  IF IsSome(http)
        THEN LET httpMethod == http[1][1]
                 httpPath == http[1][2]
                 sorted == sortParameters(method.parameters)
             IN <<[kind |-> "def",
                   name |-> buildMethodName(method),
                   params |-> [i \in 1..Len(sorted) |->
                                 [name |-> buildParameterName(sorted[i]),
                                  nilDefault |-> ~isRequired(sorted[i])]],
                   body |-> <<[kind |-> "uri",
                               uri |-> buildUri(pcache, svc, httpPath, method)]>>
                            \o buildQuery(pcache, svc, method)
                            \o <<[kind |-> "req",
                                  verb |-> pascal(httpMethod.verb)]>>
                            \o buildHeaders(pcache, svc, method)
                            \o <<[kind |-> "exchange",
                                  assign |-> IsSome(method.returnType)]>>
                            \o buildBody(pcache, svc, method)
                            \o buildReturn(method)]>>
        ELSE <<>>

buildDefinition(hc, pcache, svc, method) ==
    LET http == getHttp(hc, svc, method.name)
    IN  IF IsSome(http)
        THEN LET httpMethod == http[1][1]
                 httpPath == http[1][2]
                 sorted == sortParameters(method.parameters)
             IN <<[kind |-> "def",
                   name |-> buildMethodName(method),
                   params |-> [i \in 1..Len(sorted) |->
                                 [name |-> buildParameterName(sorted[i]),
                                  nilDefault |-> ~isRequired(sorted[i])]],
                   body |-> <<[kind |-> "uri",
                               uri |-> buildUri(pcache, svc, httpPath, method)]>>
                            \o buildQuery(pcache, svc, method)
                            \o <<[kind |-> "req",
                                  verb |-> pascal(httpMethod.verb)]>>
                            \o buildHeaders(pcache, svc, method)
                            \o buildBody(pcache, svc, method)
                            \o <<[kind |-> "exchange",
                                  assign |-> IsSome(method.returnType)]>>
                            \o buildReturn(method)]>>
        ELSE <<>>

\* localeCompare on the method names of the model.
MethodNameRank(n) ==
    CASE n = "getWidget" -> 1 [] n = "listWidgets" -> 2 [] OTHER -> 3

RECURSIVE InsertMethod(_, _)
InsertMethod(sorted, m) ==
    IF Len(sorted) = 0 THEN <<m>>
    ELSE IF MethodNameRank(m.name) >= MethodNameRank(sorted[Len(sorted)].name)
         THEN Append(sorted, m)
         ELSE Append(InsertMethod(SubSeq(sorted, 1, Len(sorted) - 1), m),
                     sorted[Len(sorted)])

RECURSIVE SortMethods(_, _)
SortMethods(rest, sorted) ==
    IF Len(rest) = 0 THEN sorted
    ELSE SortMethods(Tail(rest), InsertMethod(sorted, Head(rest)))

\* Array.from(new Set(...)): distinct values in first-seen order.
RECURSIVE Distinct(_, _)
Distinct(s, seen) ==
    IF Len(s) = 0 THEN seen
    ELSE Distinct(Tail(s),
                  IF \E i \in 1..Len(seen) : seen[i] = Head(s)
                  THEN seen ELSE Append(seen, Head(s)))

buildInitializer(int) ==
    LET schemes == Concat([i \in 1..Len(int.methods) |->
                             Concat(int.methods[i].security)])
        names == Distinct([i \in 1..Len(schemes) |-> snake(schemes[i].name)],
                          <<>>)
    IN  [kind |-> "initialize", params |-> <<apiRoot>> \o names]

\* What the loop of buildClient emits for one method.
buildClientMethod(hc, pcache, svc, method) ==
    [method |-> method.name,
     comment |-> comment(method.description),
     signature |-> buildSignature(method),
     definition |-> buildDefinition(hc, pcache, svc, method)]

buildClient(hc, pcache, svc, int) ==
    LET methods == SortMethods(int.methods, <<>>)
    IN  [interface |-> int.name,
         initializer |-> buildInitializer(int),
         methods |-> [i \in 1..Len(methods) |->
                        buildClientMethod(hc, pcache, svc, methods[i])]]

\* Builder.build of http-client-factory.ts.
build(hc, pcache, svc) ==
    [i \in 1..Len(svc.interfaces) |->
       buildClient(hc, pcache, svc, svc.interfaces[i])]

(***************************************************************************)
(* The Mapper Generator (class Builder of the mapper factory, index.ts).   *)
(* An emitted Ruby expression is a node [op, name, args]; name is a        *)
(* sequence of strings and args a sequence of nodes.                       *)
(***************************************************************************)
Node(op, name, args) == [op |-> op, name |-> name, args |-> args]
Var(n) == Node("var", <<n>>, <<>>)

buildPropertyName(prop) == snake(prop.name)
buildFullyQualifiedTypeName(type) == type.name

\* this.options?.sorbet?.types?.[typeName]
typesOverride(opts, typeName) ==
    IF typeName \in DOMAIN opts.types THEN Some(opts.types[typeName]) ELSE None

buildPrimitiveCast(opts, primitive, baseCase) ==
    LET override == typesOverride(opts, primitive)
    IN  IF IsSome(override) THEN Node("call", <<override[1]>>, <<baseCase>>)
        ELSE CASE primitive = "boolean" ->
                    Node("call", <<"ActiveModel::Type::Boolean.new.cast">>,
                         <<baseCase>>)
               [] primitive = "date" ->
                    Node("call", <<"Date.parse">>, <<baseCase>>)
               [] primitive = "date-time" ->
                    Node("call", <<"DateTime.parse">>, <<baseCase>>)
               [] primitive \in {"double", "float", "number"} ->
                    Node("call", <<"Float">>, <<baseCase>>)
               [] primitive \in {"integer", "long"} ->
                    Node("call", <<"Integer">>, <<baseCase>>)
               [] OTHER -> baseCase

buildPropCastIgnoringTypes(opts, typeName, isPrimitive, baseCase) ==
    IF isPrimitive
    THEN LET casted == buildPrimitiveCast([types |-> <<>>], typeName, baseCase)
         IN  IF casted = baseCase THEN baseCase
             ELSE Node("if_string", <<>>, <<baseCase, casted, baseCase>>)
    ELSE Node("call", <<"map_dto_to", snake(typeName)>>, <<baseCase>>)

buildPropCast(opts, typeName, isPrimitive, baseCase) ==
    IF isPrimitive
    THEN LET override == typesOverride(opts, typeName)
             casted == buildPrimitiveCast(opts, typeName, baseCase)
         IN  IF IsSome(override)
             THEN Node("call", <<override[1]>>,
                       <<Node("to_s", <<>>, <<baseCase>>)>>)
             ELSE IF casted = baseCase THEN baseCase
             ELSE Node("if_string", <<>>, <<baseCase, casted, baseCase>>)
    ELSE Node("call", <<"map_dto_to", snake(typeName)>>, <<baseCase>>)

buildDtoPropCast(typeName, isPrimitive, baseCase) ==
    IF isPrimitive
    THEN CASE typeName = "date" -> Node("safe_to_s", <<>>, <<baseCase>>)
           [] typeName = "date-time" ->
                Node("safe_utc_iso8601", <<>>, <<baseCase>>)
           [] OTHER -> baseCase
    ELSE Node("call", <<"map", snake(typeName), "to_dto">>, <<baseCase>>)

\* def map_dto_to_<type>(dto) ... rescue StandardError; dto; end
buildDtoToType(opts, type) ==
    LET dto(prop) == Node("index", <<prop.name>>, <<Var("dto")>>)
    IN  [name |-> <<"map_dto_to", snake(type.name)>>,
         param |-> "dto",
         body |-> Node("new", <<buildFullyQualifiedTypeName(type)>>,
                    [i \in 1..Len(type.properties) |->
                       LET prop == type.properties[i]
                       IN  Node("kwarg", <<buildPropertyName(prop)>>,
                             <<IF prop.isArray
                               THEN Node("safe_map", <<"item">>,
                                      <<dto(prop),
                                        buildPropCast(opts, prop.typeName,
                                          prop.isPrimitive, Var("item"))>>)
                               ELSE buildPropCast(opts, prop.typeName,
                                      prop.isPrimitive, dto(prop))>>)]),
         rescue |-> Some(Var("dto"))]

\* def map_<type>_to_dto(<type>) ... rescue StandardError; <type>; end
buildTypeToDto(type) ==
    LET self == snake(type.name)
        attr(prop) == Node("attr", <<buildPropertyName(prop)>>, <<Var(self)>>)
    IN  [name |-> <<"map", snake(type.name), "to_dto">>,
         param |-> self,
         body |-> Node("compact", <<>>,
                    <<Node("hash", <<>>,
                        [i \in 1..Len(type.properties) |->
                           LET prop == type.properties[i]
                           IN  Node("pair", <<prop.name>>,
                                 <<IF prop.isArray
                                   THEN Node("safe_map", <<"item">>,
                                          <<attr(prop),
                                            buildDtoPropCast(prop.typeName,
                                              prop.isPrimitive, Var("item"))>>)
                                   ELSE buildDtoPropCast(prop.typeName,
                                          prop.isPrimitive, attr(prop))>>)])>>),
         rescue |-> Some(Var(self))]

buildDtoToEnumNoRescue(e) ==
    [name |-> <<"map_dto_to", snake(e.name)>>,
     param |-> "dto",
     body |-> Node("deserialize", <<buildFullyQualifiedTypeName(e)>>,
                   <<Var("dto")>>),
     rescue |-> None]

buildDtoToEnum(e) ==
    [name |-> <<"map_dto_to", snake(e.name)>>,
     param |-> "dto",
     body |-> Node("deserialize", <<buildFullyQualifiedTypeName(e)>>,
                   <<Var("dto")>>),
     rescue |-> Some(Var("dto"))]

buildEnumToDto(e) ==
    [name |-> <<"map", snake(e.name), "to_dto">>,
     param |-> "enum",
     body |-> Node("safe_serialize", <<>>, <<Var("enum")>>),
     rescue |-> Some(Var("enum"))]

\* The sets castPrimitive and castPrimitiveArray are created empty and no
\* code adds to them: the cast_<primitive> helpers are never emitted.
castPrimitive == <<>>

buildCastPrimitive(opts, primitive) ==
    [name |-> <<"cast", snake(primitive)>>,
     param |-> "param",
     body |-> Node("unless_nil", <<>>,
                <<Var("param"),
                  buildPrimitiveCast(opts, primitive, Var("param"))>>),
     rescue |-> Some(Var("param"))]

buildMapper(opts, svc) ==
    Concat([i \in 1..Len(svc.types) |->
              <<buildDtoToType(opts, svc.types[i]),
                buildTypeToDto(svc.types[i])>>])
    \o Concat([i \in 1..Len(svc.enums) |->
                 <<buildDtoToEnum(svc.enums[i]), buildEnumToDto(svc.enums[i])>>])
    \o [i \in 1..Len(castPrimitive) |->
          buildCastPrimitive(opts, castPrimitive[i])]

(***************************************************************************)
(* The Ruby the emitted mapper functions execute.  A value is              *)
(* [t, c, s, kv]: its kind, its class (structs, enums, caster results),    *)
(* its text, and its entries (hash pairs, struct props, array items).      *)
(* An evaluation ends in [ok, val, err]: a value, or a raised exception.   *)
(***************************************************************************)
Val(t, c, s, kv) == [t |-> t, c |-> c, s |-> s, kv |-> kv]
Nil == Val("nil", "", "", <<>>)
Str(x) == Val("str", "", x, <<>>)
Sym(x) == Val("sym", "", x, <<>>)
Bool(b) == Val("bool", "", IF b THEN "true" ELSE "false", <<>>)
IntVal(x) == Val("int", "", x, <<>>)
FloatVal(x) == Val("float", "", x, <<>>)
DateVal(x) == Val("date", "", x, <<>>)
EnumVal(e, member) == Val("enum", e, member, <<>>)
Custom(caster, text) == Val("custom", caster, text, <<>>)
Entry(k, v) == [k |-> k, v |-> v]
Hash(entries) == Val("hash", "", "", entries)
Array(items) == Val("array", "", "", [i \in 1..Len(items) |-> Entry(IntVal("i"), items[i])])
Struct(c, props) == Val("struct", c, "", props)

Ok(v) == [ok |-> TRUE, val |-> v, err |-> ""]
Raise(e) == [ok |-> FALSE, val |-> Nil, err |-> e]

\* Every exception class the emitted code can meet descends from
\* StandardError.
IsStandardError(e) ==
    e \in {"NoMethodError", "NameError", "TypeError", "ArgumentError",
           "KeyError"}

Lookup(entries, k) ==
    LET hit == SelectSeq(entries, LAMBDA e : e.k = k)
    IN  IF Len(hit) = 0 THEN None ELSE Some(hit[Len(hit)].v)

\* receiver['name']
RubyIndex(recv, name) ==
    CASE recv.t = "hash" ->
           LET hit == Lookup(recv.kv, Str(name))
           IN  Ok(IF IsSome(hit) THEN hit[1] ELSE Nil)
      [] recv.t = "str" -> Ok(IF recv.s = name THEN Str(name) ELSE Nil)
      [] recv.t \in {"array", "int"} -> Raise("TypeError")
      [] OTHER -> Raise("NoMethodError")

\* receiver.name on a T::Struct
RubyAttr(recv, name) ==
    IF recv.t = "struct" /\ IsSome(Lookup(recv.kv, Sym(name)))
    THEN Ok(Lookup(recv.kv, Sym(name))[1])
    ELSE Raise("NoMethodError")

\* receiver.to_s
RubyToS(recv) ==
    CASE recv.t = "nil" -> Str("")
      [] recv.t \in {"str", "sym", "bool", "int", "float", "date", "custom"} ->
           Str(recv.s)
      [] recv.t = "enum" -> Str(recv.s)
      [] OTHER -> Str("#<inspect>")

IsDigits(x) == x \in {"5", "7"}
IsDate(x) == x \in {"2020-01-02"}

\* The conversion functions of the default cast table, and the configured
\* caster Kernel#BigDecimal, which raises ArgumentError on text that is no
\* number (the text of nil included).  Any other name is a function the
\* Ruby program does not define.
RubyConvert(fn, arg) ==
    CASE fn = "Integer" ->
           IF arg.t = "str" /\ IsDigits(arg.s) THEN Ok(IntVal(arg.s))
           ELSE IF arg.t = "nil" THEN Raise("TypeError")
           ELSE Raise("ArgumentError")
      [] fn = "Float" ->
           IF arg.t = "str" /\ IsDigits(arg.s) THEN Ok(FloatVal(arg.s))
           ELSE IF arg.t \in {"int", "float"} THEN Ok(FloatVal(arg.s))
           ELSE IF arg.t = "str" THEN Raise("ArgumentError")
           ELSE Raise("TypeError")
      [] fn = "ActiveModel::Type::Boolean.new.cast" ->
           IF arg.t = "str"
           THEN Ok(IF arg.s = "" THEN Nil
                   ELSE Bool(arg.s \notin {"false", "0", "f", "off"}))
           ELSE Ok(arg)
      [] fn \in {"Date.parse", "DateTime.parse"} ->
           IF arg.t = "str" /\ IsDate(arg.s) THEN Ok(DateVal(arg.s))
           ELSE IF arg.t = "str" THEN Raise("ArgumentError")
           ELSE Raise("TypeError")
      [] fn = "BigDecimal" ->
           IF arg.t = "str" /\ IsDigits(arg.s) THEN Ok(Custom(fn, arg.s))
           ELSE IF arg.t \in {"int", "float", "custom"}
                THEN Ok(Custom(fn, arg.s))
           ELSE IF arg.t = "str" THEN Raise("ArgumentError")
           ELSE Raise("TypeError")
      [] OTHER -> Raise("NoMethodError")

TypeNamed(n) == SelectSeq(service.types, LAMBDA t : t.name = n)
EnumNamed(n) == SelectSeq(service.enums, LAMBDA e : e.name = n)

\* T::Enum.deserialize and serialize
RubyDeserialize(enumName, arg) ==
    LET e == EnumNamed(enumName)
    IN  IF Len(e) = 1 /\ arg.t = "str"
           /\ \E i \in 1..Len(e[1].values) : e[1].values[i] = arg.s
        THEN Ok(EnumVal(enumName, arg.s))
        ELSE Raise("KeyError")

RubySafeSerialize(recv) ==
    CASE recv.t = "nil" -> Ok(Nil)
      [] recv.t = "enum" -> Ok(Str(recv.s))
      [] OTHER -> Raise("NoMethodError")

\* The runtime check T::Struct makes of one prop: nil only when optional,
\* otherwise the class of the value, and of every item of a typed array.
ValidItem(prop, v) ==
    IF ~prop.isPrimitive
    THEN v.t \in {"struct", "enum"} /\ v.c = prop.typeName
    ELSE IF prop.typeName \in DOMAIN options.types
         THEN v.t = "custom" /\ v.c = options.types[prop.typeName]
    ELSE CASE prop.typeName = "string" -> v.t = "str"
           [] prop.typeName = "boolean" -> v.t = "bool"
           [] prop.typeName \in {"integer", "long"} -> v.t = "int"
           [] prop.typeName \in {"double", "float", "number"} -> v.t = "float"
           [] prop.typeName \in {"date", "date-time"} -> v.t = "date"
           [] OTHER -> TRUE

ValidProp(prop, v) ==
    IF v.t = "nil" THEN "required" \notin prop.rules
    ELSE IF prop.isArray
         THEN /\ v.t = "array"
              /\ \A i \in 1..Len(v.kv) : ValidItem(prop, v.kv[i].v)
         ELSE ValidItem(prop, v)

\* <Struct>.new(prop: value, ...)
RubyNew(structName, kwargs) ==
    LET t == TypeNamed(structName)
    IN  IF Len(t) /= 1 THEN Raise("NameError")
        ELSE IF \A i \in 1..Len(t[1].properties) :
                   LET prop == t[1].properties[i]
                       given == Lookup(kwargs, Sym(snake(prop.name)))
                   IN  IF IsSome(given) THEN ValidProp(prop, given[1])
                       ELSE "required" \notin prop.rules
             THEN Ok(Struct(structName, kwargs))
             ELSE Raise("TypeError")

\* hash.compact
RubyCompact(recv) ==
    IF recv.t = "hash"
    THEN Ok(Hash(SelectSeq(recv.kv, LAMBDA e : e.v.t /= "nil")))
    ELSE Raise("NoMethodError")

\* The items receiver.map yields (absent when the receiver has no map).
RubyItems(recv) ==
    CASE recv.t = "array" -> Some([i \in 1..Len(recv.kv) |-> recv.kv[i].v])
      [] recv.t = "hash" ->
           Some([i \in 1..Len(recv.kv) |->
                   Array(<<recv.kv[i].k, recv.kv[i].v>>)])
      [] OTHER -> None

FirstRaise(outs) ==
    LET bad == SelectSeq(outs, LAMBDA o : ~o.ok)
    IN  IF Len(bad) = 0 THEN None ELSE Some(bad[1])

EmittedFunction(fns, name) == SelectSeq(fns, LAMBDA f : f.name = name)

RECURSIVE Eval(_, _, _)
RECURSIVE CallFunction(_, _, _)

\* The value of emitted expression n under the local variables env, with
\* the functions fns of the mapper module in scope.
Eval(fns, n, env) ==
    LET a == Eval(fns, n.args[1], env)
    IN  CASE n.op = "var" -> Ok(Lookup(env, n.name[1])[1])
          [] n.op = "index" ->
               IF a.ok THEN RubyIndex(a.val, n.name[1]) ELSE a
          [] n.op = "attr" ->
               IF a.ok THEN RubyAttr(a.val, n.name[1]) ELSE a
          [] n.op = "to_s" -> IF a.ok THEN Ok(RubyToS(a.val)) ELSE a
          [] n.op = "safe_to_s" ->
               IF a.ok /\ a.val.t /= "nil" THEN Ok(RubyToS(a.val)) ELSE a
          [] n.op = "safe_utc_iso8601" ->
               IF ~a.ok \/ a.val.t = "nil" THEN a
               ELSE IF a.val.t = "date" THEN Ok(Str(a.val.s))
               ELSE Raise("NoMethodError")
          [] n.op = "safe_serialize" ->
               IF a.ok THEN RubySafeSerialize(a.val) ELSE a
          [] n.op = "deserialize" ->
               IF a.ok THEN RubyDeserialize(n.name[1], a.val) ELSE a
          [] n.op = "if_string" ->
               IF ~a.ok THEN a
               ELSE IF a.val.t = "str" THEN Eval(fns, n.args[2], env)
               ELSE Eval(fns, n.args[3], env)
          [] n.op = "unless_nil" ->
               IF ~a.ok \/ a.val.t = "nil" THEN a
               ELSE Eval(fns, n.args[2], env)
          [] n.op = "call" ->
               IF ~a.ok THEN a
               ELSE IF n.name[1] \in {"map", "map_dto_to", "cast"}
                    THEN CallFunction(fns, n.name, a.val)
                    ELSE RubyConvert(n.name[1], a.val)
          [] n.op = "safe_map" ->
               IF ~a.ok \/ a.val.t = "nil" THEN a
               ELSE IF Len(RubyItems(a.val)) = 0 THEN Raise("NoMethodError")
               ELSE LET items == RubyItems(a.val)[1]
                        outs == [i \in 1..Len(items) |->
                                   Eval(fns, n.args[2],
                                        env \o <<Entry(n.name[1], items[i])>>)]
                    IN  IF IsSome(FirstRaise(outs)) THEN FirstRaise(outs)[1]
                        ELSE Ok(Array([i \in 1..Len(outs) |-> outs[i].val]))
          [] n.op = "compact" -> IF a.ok THEN RubyCompact(a.val) ELSE a
          [] n.op \in {"hash", "new"} ->
               LET outs == [i \in 1..Len(n.args) |->
                              Eval(fns, n.args[i].args[1], env)]
                   entries == [i \in 1..Len(n.args) |->
                                 Entry(Sym(n.args[i].name[1]), outs[i].val)]
               IN  IF IsSome(FirstRaise(outs)) THEN FirstRaise(outs)[1]
                   ELSE IF n.op = "hash" THEN Ok(Hash(entries))
                   ELSE RubyNew(n.name[1], entries)

\* A call of the emitted function named name: its body, and on a raised
\* StandardError the value of its rescue clause.
CallFunction(fns, name, arg) ==
    LET f == EmittedFunction(fns, name)
    IN  IF Len(f) = 0 THEN Raise("NoMethodError")
        ELSE LET env == <<Entry(f[1].param, arg)>>
                 out == Eval(fns, f[1].body, env)
             IN  IF out.ok THEN out
                 ELSE IF IsSome(f[1].rescue) /\ IsStandardError(out.err)
                      THEN Eval(fns, f[1].rescue[1], env)
                      ELSE out

(***************************************************************************)
(* The inputs: service descriptions the generator is run on.               *)
(***************************************************************************)
ParamNames == <<"id", "pageSize", "q", "tag">>

Locations == {"path", "query", "header", "body"}

Http(name, in) == Some([name |-> name, in |-> in])

\* A parameter as drawn: the Parameter of the IR and the HttpParameter (if
\* any) that the HttpMethod lists under the parameter's name.
ParamSpec(i, typeName, isPrimitive, isArray, required, http) ==
    [name |-> ParamNames[i], typeName |-> typeName,
     isPrimitive |-> isPrimitive, isArray |-> isArray,
     rules |-> IF required THEN {"required"} ELSE {},
     http |-> http]

StringParam(i, required, http) ==
    ParamSpec(i, "string", TRUE, FALSE, required, http)

SigChoices(i) ==
    {StringParam(i, r, h) :
        r \in BOOLEAN, h \in {None, Http(ParamNames[i], "query")}}

HttpChoices(i) ==
    {None} \cup {Http(ParamNames[i], l) : l \in Locations}

BindChoices(i) ==
    {StringParam(i, TRUE, h) : h \in HttpChoices(i)}
    \cup {StringParam(i, FALSE, Http(ParamNames[i], "body"))}

UriChoices(i) ==
    {StringParam(i, TRUE, h) :
        h \in {None, Http(ParamNames[i], "path"),
               Http(ParamNames[i], "query")}}

\* The type references the IR allows for a body parameter and a return type.
TypeRefs ==
    {[typeName |-> t[1], isPrimitive |-> t[2], isArray |-> a] :
        t \in {<<"string", TRUE>>, <<"Widget", FALSE>>, <<"Color", FALSE>>},
        a \in BOOLEAN}

TypeChoices ==
    {ParamSpec(1, t.typeName, t.isPrimitive, t.isArray, r,
               Http(ParamNames[1], "body")) : t \in TypeRefs, r \in BOOLEAN}

\* The choices for the i-th parameter in each family of methods.
Choices(family, i) ==
    CASE family = "sig" -> SigChoices(i)
      [] family = "bind" -> BindChoices(i)
      [] OTHER -> UriChoices(i)

\* Sequences of exactly n parameters, the i-th drawn from its choices.
RECURSIVE ParamSeqs(_, _)
ParamSeqs(n, family) ==
    IF n = 0 THEN {<<>>}
    ELSE {Append(s, c) : s \in ParamSeqs(n - 1, family),
                         c \in Choices(family, n)}

ParamSeqsUpTo(n, family) == UNION {ParamSeqs(k, family) : k \in 0..n}

\* Path templates after split('/'): the leading empty segment, then up to
\* MaxSegs segments.
Segments ==
    {<<"widgets">>, <<":", "id">>, <<"{", "id", "}">>,
     <<"{", "pageSize", "}">>, <<":", "other">>, <<"{", "id">>, <<":">>}

Templates ==
    UNION {{<<<<>>>> \o t : t \in [1..k -> Segments]} : k \in 1..MaxSegs}

DefaultPath == <<<<>>, <<"widgets">>, <<":", "id">>>>
BracePath == <<<<>>, <<"widgets">>, <<"{", "pageSize", "}">>>>

WidgetRef == [typeName |-> "Widget", isPrimitive |-> FALSE, isArray |-> FALSE]

\* A method as drawn: the Method of the IR and its operation binding (if any).
MethodSpec(name, description, params, returnType, security, http) ==
    [name |-> name, description |-> description, params |-> params,
     returnType |-> returnType, security |-> security, http |-> http]

Binding(verb, path) == Some([verb |-> verb, path |-> path])

SigMethods ==
    {MethodSpec("getWidget", Some("Gets a widget"), ps, rt, <<>>, h) :
        ps \in ParamSeqsUpTo(MaxSigParams, "sig"),
        rt \in {None, Some(WidgetRef)},
        h \in {None, Binding("get", DefaultPath)}}

BindMethods ==
    {MethodSpec("getWidget", None, ps, None, <<>>, Binding("put", path)) :
        ps \in ParamSeqsUpTo(MaxParams, "bind"),
        path \in {DefaultPath, BracePath}}

UriMethods ==
    {MethodSpec("getWidget", None, ps, None, <<>>, Binding("get", path)) :
        ps \in ParamSeqs(1, "uri") \cup ParamSeqs(2, "uri"),
        path \in Templates}

TypeMethods ==
    {MethodSpec("getWidget", None, ps, rt, <<>>, Binding("put", DefaultPath)) :
        ps \in {<<>>} \cup {<<p>> : p \in TypeChoices},
        rt \in {None} \cup {Some(t) : t \in TypeRefs}}

ApiKey ==
    [type |-> "apiKey", name |-> "apiKey", parameter |-> "x-api-key",
     in |-> "header"]

OtherMethods ==
    {MethodSpec("listWidgets", Some("Lists widgets"), <<>>, None,
                <<<<ApiKey>>>>, h) :
        h \in {None, Binding("get", <<<<>>, <<"widgets">>>>)}}

WidgetType ==
    [name |-> "Widget",
     properties |-> <<
        [name |-> "id", typeName |-> "string", isPrimitive |-> TRUE,
         isArray |-> FALSE, rules |-> {"required"}],
        [name |-> "color", typeName |-> "Color", isPrimitive |-> FALSE,
         isArray |-> FALSE, rules |-> {}]>>]

ColorEnum == [name |-> "Color", values |-> <<"red", "green">>]

\* The Method of the IR.
MethodOf(ms) ==
    [name |-> ms.name, description |-> ms.description,
     parameters |-> [i \in 1..Len(ms.params) |->
                       [name |-> ms.params[i].name,
                        typeName |-> ms.params[i].typeName,
                        isPrimitive |-> ms.params[i].isPrimitive,
                        isArray |-> ms.params[i].isArray,
                        rules |-> ms.params[i].rules]],
     returnType |-> ms.returnType, security |-> ms.security]

\* The HttpPath of the IR that binds the method (none when it is unbound).
HttpPathOf(ms) ==
    IF Len(ms.http) = 0 THEN <<>>
    ELSE LET bound == SelectSeq(ms.params, LAMBDA p : IsSome(p.http))
         IN <<[path |-> ms.http[1].path,
               methods |-> <<[name |-> ms.name, verb |-> ms.http[1].verb,
                              parameters |->
                                 [i \in 1..Len(bound) |->
                                    [name |-> bound[i].http[1].name,
                                     in |-> bound[i].http[1].in]]]>>]>>

MkService(specs, version, types, enums) ==
    [id |-> "s1", majorVersion |-> version,
     interfaces |-> <<[name |-> "widgets",
                       description |-> None,
                       methods |-> [i \in 1..Len(specs) |-> MethodOf(specs[i])],
                       http |-> Concat([i \in 1..Len(specs) |->
                                          HttpPathOf(specs[i])])]>>,
     types |-> types, enums |-> enums]

Services ==
    {MkService(<<m>>, 1, <<WidgetType>>, <<ColorEnum>>) :
        m \in SigMethods \cup BindMethods \cup UriMethods}
    \cup {MkService(<<m>>, v, <<WidgetType>>, <<ColorEnum>>) :
            m \in TypeMethods, v \in {1, 2}}
    \cup {MkService(<<o, m>>, 1, <<WidgetType>>, <<ColorEnum>>) :
            o \in OtherMethods, m \in SigMethods}

NoOptions == [types |-> <<>>]

\* No index is built for any live Service object.
NoBuilds(p) == [id \in DOMAIN p |-> [path |-> 0, param |-> 0]]

(***************************************************************************)
(* The generator of index.ts: generateClients, then generateMapper.        *)
(***************************************************************************)
Init ==
    /\ service \in Services
    /\ options = NoOptions
    /\ pc = "start"
    /\ clientFiles = <<>>
    /\ mapperFile = <<>>
    /\ httpPathCache = <<>>
    /\ httpParameterCache = <<>>
    /\ call = <<>>
    /\ pool = (service.id :> service)
    /\ builds = NoBuilds(pool)
    /\ resolved = <<>>

\* getHttp is called once per method; getHttpParameter once per parameter
\* of every method that has an operation binding.
GenerateClients ==
    LET callsGetHttp == Len(allMethods(service)) > 0
        callsGetHttpParameter ==
            \E i \in 1..Len(allMethods(service)) :
                /\ IsSome(getHttp(httpPathCache, service,
                                  allMethods(service)[i].name))
                /\ Len(allMethods(service)[i].parameters) > 0
    IN  /\ pc = "start"
        /\ clientFiles' = build(httpPathCache, httpParameterCache, service)
        /\ httpPathCache' =
              IF callsGetHttp
              THEN httpPathCacheAfter(httpPathCache, service)
              ELSE httpPathCache
        /\ httpParameterCache' =
              IF callsGetHttpParameter
              THEN httpParameterCacheAfter(httpParameterCache, service)
              ELSE httpParameterCache
        /\ builds' =
              [builds EXCEPT
                 ![service.id].path =
                     @ + (IF callsGetHttp
                          THEN httpPathBuilds(httpPathCache, service)
                          ELSE 0),
                 ![service.id].param =
                     @ + (IF callsGetHttpParameter
                          THEN httpParameterBuilds(httpParameterCache, service)
                          ELSE 0)]
        /\ pc' = "clients"
        /\ UNCHANGED <<service, options, mapperFile, call, pool, resolved>>

GenerateMapper ==
    /\ pc = "clients"
    /\ mapperFile' = buildMapper(options, service)
    /\ pc' = "done"
    /\ UNCHANGED <<service, options, clientFiles, httpPathCache,
                   httpParameterCache, call, pool, builds, resolved>>

Next == GenerateClients \/ GenerateMapper

Spec == Init /\ [][Next]_vars

(***************************************************************************)
(* Running the emitted mapper functions: the inputs are a service with one *)
(* type Widget of up to MaxProps properties, the nested type Tag and the   *)
(* enum Color, and the options; then wire and domain values to call the    *)
(* functions on.                                                           *)
(***************************************************************************)
PropNames == ParamNames

PropKinds ==
    {[typeName |-> "string", isPrimitive |-> TRUE, isArray |-> FALSE,
      rules |-> {"required"}],
     [typeName |-> "string", isPrimitive |-> TRUE, isArray |-> FALSE,
      rules |-> {}],
     [typeName |-> "boolean", isPrimitive |-> TRUE, isArray |-> FALSE,
      rules |-> {}],
     [typeName |-> "integer", isPrimitive |-> TRUE, isArray |-> FALSE,
      rules |-> {}],
     [typeName |-> "date", isPrimitive |-> TRUE, isArray |-> FALSE,
      rules |-> {}],
     [typeName |-> "Color", isPrimitive |-> FALSE, isArray |-> FALSE,
      rules |-> {}],
     [typeName |-> "Color", isPrimitive |-> FALSE, isArray |-> TRUE,
      rules |-> {}],
     [typeName |-> "Tag", isPrimitive |-> FALSE, isArray |-> FALSE,
      rules |-> {}]}

Prop(i, kind) ==
    [name |-> PropNames[i], typeName |-> kind.typeName,
     isPrimitive |-> kind.isPrimitive, isArray |-> kind.isArray,
     rules |-> kind.rules]

PropSeqs(n) == {[i \in 1..n |-> Prop(i, ks[i])] : ks \in [1..n -> PropKinds]}

TagType ==
    [name |-> "Tag",
     properties |-> <<[name |-> "q", typeName |-> "string",
                       isPrimitive |-> TRUE, isArray |-> FALSE,
                       rules |-> {"required"}]>>]

RuntimeServices ==
    {MkService(<<>>, 1, <<[name |-> "Widget", properties |-> ps], TagType>>,
               <<ColorEnum>>) :
        ps \in UNION {PropSeqs(n) : n \in 0..MaxProps}}

OptionChoices ==
    {NoOptions,
     [types |-> ("integer" :> "BigDecimal")],
     [types |-> ("Color" :> "Paint")]}

TagWire == Hash(<<Entry(Str("q"), Str("abc"))>>)
TagDomain == Struct("Tag", <<Entry(Sym("q"), Str("abc"))>>)

\* Wire values a field of the property is tried with.
WireVals(prop) ==
    IF prop.isArray
    THEN {Nil, Array(<<Str("red")>>), Array(<<Str("purple")>>)}
    ELSE CASE prop.typeName = "string" -> {Nil, Str("abc"), IntVal("5")}
           [] prop.typeName = "boolean" ->
                {Nil, Str("true"), Bool(FALSE)}
           [] prop.typeName = "integer" ->
                {Nil, Str("5"), Str("abc"), IntVal("5")}
           [] prop.typeName = "date" ->
                {Nil, Str("2020-01-02"), Str("abc")}
           [] prop.typeName = "Color" -> {Nil, Str("red"), Str("purple")}
           [] OTHER -> {Nil, TagWire, Str("abc")}

\* Values a property of a well-typed domain object can hold.
DomainVals(prop) ==
    (IF "required" \in prop.rules THEN {} ELSE {Nil})
    \cup
    IF prop.isArray
    THEN {Array(<<EnumVal("Color", "red")>>)}
    ELSE CASE prop.typeName = "string" -> {Str("abc")}
           [] prop.typeName = "boolean" -> {Bool(TRUE), Bool(FALSE)}
           [] prop.typeName = "integer" ->
                IF "integer" \in DOMAIN options.types
                THEN {Custom(options.types["integer"], "5")}
                ELSE {IntVal("5")}
           [] prop.typeName = "date" -> {DateVal("2020-01-02")}
           [] prop.typeName = "Color" -> {EnumVal("Color", "red")}
           [] OTHER -> {TagDomain}

\* JSON objects for the type: a field per property, absent when null.
WireObjects(type) ==
    {Hash(SelectSeq([i \in 1..Len(type.properties) |->
                       Entry(Str(type.properties[i].name), vs[i])],
                    LAMBDA e : e.v.t /= "nil")) :
        vs \in {vs \in [1..Len(type.properties) ->
                          UNION {WireVals(type.properties[i]) :
                                   i \in 1..Len(type.properties)}] :
                  \A i \in 1..Len(type.properties) :
                      vs[i] \in WireVals(type.properties[i])}}

\* Well-typed instances of the struct of the type.
DomainObjects(type) ==
    {Struct(type.name,
            [i \in 1..Len(type.properties) |->
               Entry(Sym(snake(type.properties[i].name)), vs[i])]) :
        vs \in {vs \in [1..Len(type.properties) ->
                          UNION {DomainVals(type.properties[i]) :
                                   i \in 1..Len(type.properties)}] :
                  \A i \in 1..Len(type.properties) :
                      vs[i] \in DomainVals(type.properties[i])}}

Junk == {Nil, Str("abc"), IntVal("5")}

InitRuntime ==
    /\ service \in RuntimeServices
    /\ options \in OptionChoices
    /\ pc = "start"
    /\ clientFiles = <<>>
    /\ mapperFile = <<>>
    /\ httpPathCache = <<>>
    /\ httpParameterCache = <<>>
    /\ call = <<>>
    /\ pool = (service.id :> service)
    /\ builds = NoBuilds(pool)
    /\ resolved = <<>>

\* Whether the body of the emitted function raises on the argument.
BodyRaises(fns, name, arg) ==
    LET f == EmittedFunction(fns, name)
    IN  ~Eval(fns, f[1].body, <<Entry(f[1].param, arg)>>).ok

\* One call of an emitted mapper function.  The functions keep no state, so
\* a run makes one call, and may feed a domain-to-wire result back.
Called(name, dir, type, arg, origin) ==
    /\ call' = Some([fn |-> name, dir |-> dir, type |-> type, arg |-> arg,
                     raised |-> BodyRaises(mapperFile, name, arg),
                     out |-> CallFunction(mapperFile, name, arg),
                     origin |-> origin])
    /\ UNCHANGED <<service, options, pc, clientFiles, mapperFile,
                   httpPathCache, httpParameterCache, pool, builds, resolved>>

CallDtoToType ==
    /\ pc = "done" /\ Len(call) = 0
    /\ \E i \in 1..Len(service.types) :
          \E v \in WireObjects(service.types[i]) \cup Junk :
             Called(<<"map_dto_to", snake(service.types[i].name)>>,
                    "wireToDomain", service.types[i].name, v, None)

CallTypeToDto ==
    /\ pc = "done" /\ Len(call) = 0
    /\ \E i \in 1..Len(service.types) :
          \E x \in DomainObjects(service.types[i]) \cup Junk :
             Called(<<"map", snake(service.types[i].name), "to_dto">>,
                    "domainToWire", service.types[i].name, x, None)

CallDtoToEnum ==
    /\ pc = "done" /\ Len(call) = 0
    /\ \E i \in 1..Len(service.enums) :
          \E v \in {Str("red"), Str("purple")} \cup Junk :
             Called(<<"map_dto_to", snake(service.enums[i].name)>>,
                    "wireToDomain", service.enums[i].name, v, None)

CallEnumToDto ==
    /\ pc = "done" /\ Len(call) = 0
    /\ \E i \in 1..Len(service.enums) :
          \E x \in {EnumVal(service.enums[i].name, "red")} \cup Junk :
             Called(<<"map", snake(service.enums[i].name), "to_dto">>,
                    "domainToWire", service.enums[i].name, x, None)

\* wireToDomain(domainToWire(x)): the result of a domain-to-wire call is
\* handed to the wire-to-domain function of the same type.
FeedBack ==
    /\ Len(call) = 1
    /\ call[1].dir = "domainToWire"
    /\ call[1].out.ok
    /\ Called(<<"map_dto_to", snake(call[1].type)>>, "wireToDomain",
              call[1].type, call[1].out.val, Some(call[1].arg))

NextRuntime ==
    \/ GenerateClients
    \/ GenerateMapper
    \/ CallDtoToType
    \/ CallTypeToDto
    \/ CallDtoToEnum
    \/ CallEnumToDto
    \/ FeedBack

SpecRuntime == InitRuntime /\ [][NextRuntime]_vars

(***************************************************************************)
(* The Binding Resolver called directly: getHttp and getHttpParameter,     *)
(* interleaved over several live Service objects that are not modified.    *)
(***************************************************************************)
MaxServices == 2     \* live Service objects

ObjectIds == {<<"s", i>> : i \in 1..MaxServices}

\* Service contents: an unbound method; a method bound with a parameter
\* at location path; one bound on another path with two parameters at
\* other locations; two methods.
ResolverContents ==
    {MkService(<<MethodSpec("getWidget", None,
                            <<StringParam(1, TRUE, None)>>, None, <<>>,
                            None)>>, 1, <<>>, <<>>),
     MkService(<<MethodSpec("getWidget", None,
                            <<StringParam(1, TRUE, Http("id", "path"))>>,
                            None, <<>>, Binding("get", DefaultPath))>>,
               1, <<>>, <<>>),
     MkService(<<MethodSpec("getWidget", None,
                            <<StringParam(1, TRUE, Http("id", "query")),
                              StringParam(2, FALSE,
                                          Http("pageSize", "header"))>>,
                            None, <<>>, Binding("put", BracePath))>>,
               1, <<>>, <<>>),
     MkService(<<MethodSpec("listWidgets", None, <<>>, None, <<>>,
                            Binding("get", <<<<>>, <<"widgets">>>>)),
                 MethodSpec("getWidget", None,
                            <<StringParam(1, FALSE, Http("id", "query"))>>,
                            None, <<>>, Binding("get", BracePath))>>,
               1, <<>>, <<>>)}

\* A Service object: contents under an identity of its own.
ServiceObject(id, contents) == [contents EXCEPT !.id = id]

MethodNameArgs == {"getWidget", "get_widget", "listWidgets"}
ParameterNameArgs == {"id", "page_size"}

InitResolver ==
    /\ pool \in {[id \in ObjectIds |-> ServiceObject(id, c[id])] :
                    c \in [ObjectIds -> ResolverContents]}
    /\ service = pool[<<"s", 1>>]
    /\ options = NoOptions
    /\ pc = "resolver"
    /\ clientFiles = <<>>
    /\ mapperFile = <<>>
    /\ httpPathCache = <<>>
    /\ httpParameterCache = <<>>
    /\ call = <<>>
    /\ builds = NoBuilds(pool)
    /\ resolved = <<>>

\* getHttp(service, methodName) on one of the live Service objects.
CallGetHttp ==
    /\ pc = "resolver"
    /\ \E id \in DOMAIN pool, m \in MethodNameArgs :
          /\ resolved' =
                Some([fn |-> "getHttp", svc |-> id, methodName |-> m,
                      parameterName |-> None,
                      hit |-> httpPathBuilds(httpPathCache, pool[id]) = 0,
                      out |-> getHttp(httpPathCache, pool[id], m)])
          /\ httpPathCache' = httpPathCacheAfter(httpPathCache, pool[id])
          /\ builds' =
                [builds EXCEPT
                   ![id].path = @ + httpPathBuilds(httpPathCache, pool[id])]
    /\ UNCHANGED <<service, options, pc, clientFiles, mapperFile,
                   httpParameterCache, call, pool>>

\* getHttpParameter(service, methodName, parameterName) on one of the live
\* Service objects.
CallGetHttpParameter ==
    /\ pc = "resolver"
    /\ \E id \in DOMAIN pool, m \in MethodNameArgs,
          p \in ParameterNameArgs :
          /\ resolved' =
                Some([fn |-> "getHttpParameter", svc |-> id,
                      methodName |-> m, parameterName |-> Some(p),
                      hit |-> httpParameterBuilds(httpParameterCache,
                                                  pool[id]) = 0,
                      out |-> getHttpParameter(httpParameterCache, pool[id],
                                               m, p)])
          /\ httpParameterCache' =
                httpParameterCacheAfter(httpParameterCache, pool[id])
          /\ builds' =
                [builds EXCEPT
                   ![id].param =
                       @ + httpParameterBuilds(httpParameterCache, pool[id])]
    /\ UNCHANGED <<service, options, pc, clientFiles, mapperFile,
                   httpPathCache, call, pool>>

NextResolver == CallGetHttp \/ CallGetHttpParameter

SpecResolver == InitResolver /\ [][NextResolver]_vars

(***************************************************************************)
(* Vocabulary of the properties.                                           *)
(***************************************************************************)
Generated == pc /= "start"

\* The methods of the service as declared, with the interface of each.
DeclaredMethods ==
    Concat([i \in 1..Len(service.interfaces) |->
              [j \in 1..Len(service.interfaces[i].methods) |->
                 [int |-> i, m |-> service.interfaces[i].methods[j]]]])

\* The method has an operation binding: some HttpMethod of some path carries
\* its (normalized) name.
HasBinding(m) ==
    \E i \in 1..Len(HttpPathEntries(service)) :
        snake(HttpPathEntries(service)[i][1].name) = snake(m.name)

\* The path template the method is bound to.
TemplateOf(m) ==
    LET es == SelectSeq(HttpPathEntries(service),
                        LAMBDA e : snake(e[1].name) = snake(m.name))
    IN  es[Len(es)][2].path

\* The HttpParameter the IR declares for parameter p of method m.
Declared(m, p) == HttpParameterOf(service, m.name, p.name)

\* What the client file of interface i holds for method m.
Emitted(i, m) ==
    LET hit == SelectSeq(clientFiles[i].methods,
                         LAMBDA b : b.method = m.name)
    IN  hit[1]

Names(ps) == [i \in 1..Len(ps) |-> ps[i].name]

\* Required parameters in declaration order, then the optional ones in
\* declaration order.
StablePartition(ps) ==
    SelectSeq(ps, LAMBDA p : "required" \in p.rules)
        \o SelectSeq(ps, LAMBDA p : "required" \notin p.rules)

(***************************************************************************)
(* C1: for every method with a resolvable operation binding, the parameter *)
(* list of the generated signature and of the generated definition is the  *)
(* declared list with all required parameters first and all optional ones  *)
(* after, each group in declaration order, none lost or duplicated.        *)
(***************************************************************************)
C1_StablePartition ==
    Generated =>
        \A k \in 1..Len(DeclaredMethods) :
            LET m == DeclaredMethods[k].m
                e == Emitted(DeclaredMethods[k].int, m)
                want == [i \in 1..Len(m.parameters) |->
                           snake(StablePartition(m.parameters)[i].name)]
            IN  HasBinding(m) =>
                    /\ Len(e.signature) = 1
                    /\ Names(e.signature[1].params) = want
                    /\ Len(e.definition) = 1
                    /\ Names(e.definition[1].params) = want
                    /\ \A i \in 1..Len(m.parameters) :
                          /\ e.signature[1].params[i].nilable
                               = ("required" \notin
                                    StablePartition(m.parameters)[i].rules)
                          /\ e.definition[1].params[i].nilDefault
                               = ("required" \notin
                                    StablePartition(m.parameters)[i].rules)


\* A bound method declared as (optional, required, optional) was generated.
C1_Witness ==
    /\ pc = "done"
    /\ \E k \in 1..Len(DeclaredMethods) :
          LET m == DeclaredMethods[k].m
          IN  /\ HasBinding(m)
              /\ Len(m.parameters) = 3
              /\ "required" \notin m.parameters[1].rules
              /\ "required" \in m.parameters[2].rules
              /\ "required" \notin m.parameters[3].rules
              /\ Names(Emitted(DeclaredMethods[k].int, m).definition[1].params)
                   = <<"page_size", "id", "q">>

(***************************************************************************)
(* C2: for every method whose operation binding does not resolve, the      *)
(* client artifact holds no client code for it: no description comment, no *)
(* signature and no definition.                                            *)
(***************************************************************************)
C2_UnboundEmitsNothing ==
    Generated =>
        \A k \in 1..Len(DeclaredMethods) :
            LET m == DeclaredMethods[k].m
                e == Emitted(DeclaredMethods[k].int, m)
            IN  ~HasBinding(m) =>
                    /\ Len(e.comment) = 0
                    /\ Len(e.signature) = 0
                    /\ Len(e.definition) = 0

(***************************************************************************)
(* C3: in the URI of every generated operation, each ":name" or "{name}"   *)
(* segment whose parameter resolves to location path is replaced by one    *)
(* interpolation of that parameter, every other segment is left as it is,  *)
(* and the result is prefixed by the base root and "/v{majorVersion}".     *)
(***************************************************************************)
\* The name a whole-segment placeholder carries (absent for other segments).
Placeholder(seg) ==
    IF Len(seg) = 2 /\ seg[1] = ":" THEN Some(seg[2])
    ELSE IF Len(seg) = 3 /\ seg[1] = "{" /\ seg[3] = "}" THEN Some(seg[2])
    ELSE None

\* The parameters of m named n that resolve to location path.
PathParams(m, n) ==
    SelectSeq(m.parameters,
        LAMBDA p : /\ p.name = n
                   /\ LET r == getHttpParameter(<<>>, service, m.name, p.name)
                      IN  IsSome(r) /\ r[1].in = "path")

UriStatement(e) == SelectSeq(e.definition[1].body, LAMBDA st : st.kind = "uri")

C3_UriAssembly ==
    Generated =>
        \A k \in 1..Len(DeclaredMethods) :
            LET m == DeclaredMethods[k].m
                e == Emitted(DeclaredMethods[k].int, m)
            IN  HasBinding(m) =>
                    /\ Len(UriStatement(e)) = 1
                    /\ e.definition[1].body[1].kind = "uri"
                    /\ LET u == e.definition[1].body[1].uri
                           t == TemplateOf(m)
                       IN  /\ u.apiRoot = "api_root"
                           /\ u.majorVersion = service.majorVersion
                           /\ Len(u.subpath) = Len(t)
                           /\ \A i \in 1..Len(t) :
                                 LET ph == Placeholder(t[i])
                                     ps == IF IsSome(ph)
                                           THEN PathParams(m, ph[1]) ELSE <<>>
                                 IN  u.subpath[i] =
                                        IF Len(ps) > 0
                                        THEN <<"#{", snake(ps[1].name), "}">>
                                        ELSE t[i]

\* A URI was generated in which a brace placeholder was replaced and a colon
\* placeholder that names no path parameter was kept.
C3_Witness ==
    /\ pc = "done"
    /\ \E k \in 1..Len(DeclaredMethods) :
          LET m == DeclaredMethods[k].m
          IN  /\ HasBinding(m)
              /\ TemplateOf(m) = <<<<>>, <<"{", "id", "}">>, <<":", "other">>>>
              /\ Emitted(DeclaredMethods[k].int, m).definition[1].body[1].uri.subpath
                   = <<<<>>, <<"#{", "id", "}">>, <<":", "other">>>>

(***************************************************************************)
(* C4: for every bound method, the emitted query hash has exactly one      *)
(* entry per parameter bound to query and none for any other parameter,    *)
(* each keyed by the wire name recorded in the parameter's HTTP binding,   *)
(* and the hash is compacted.                                              *)
(***************************************************************************)
QueryParams(m) ==
    SelectSeq(m.parameters,
        LAMBDA p : IsSome(Declared(m, p)) /\ Declared(m, p)[1].in = "query")

QueryStatements(e) ==
    SelectSeq(e.definition[1].body, LAMBDA st : st.kind = "query")

C4_QueryKeyedByWireName ==
    Generated =>
        \A k \in 1..Len(DeclaredMethods) :
            LET m == DeclaredMethods[k].m
                e == Emitted(DeclaredMethods[k].int, m)
                qs == QueryParams(m)
            IN  HasBinding(m) =>
                    IF Len(qs) = 0 THEN Len(QueryStatements(e)) = 0
                    ELSE /\ Len(QueryStatements(e)) = 1
                         /\ QueryStatements(e)[1].compact
                         /\ QueryStatements(e)[1].entries =
                               [i \in 1..Len(qs) |->
                                  [key |-> Declared(m, qs[i])[1].name,
                                   value |-> snake(qs[i].name)]]

\* A query hash of one entry, for a method that has a parameter bound to
\* query, whose name snake() changes, and a parameter bound to a header.
C4_Witness ==
    /\ Generated
    /\ \E k \in 1..Len(DeclaredMethods) :
          LET m == DeclaredMethods[k].m
              e == Emitted(DeclaredMethods[k].int, m)
          IN  /\ HasBinding(m)
              /\ Len(m.parameters) = 2
              /\ Declared(m, m.parameters[1]) = Http("id", "header")
              /\ Declared(m, m.parameters[2]) = Http("pageSize", "query")
              /\ QueryStatements(e)[1].entries
                    = <<[key |-> "pageSize", value |-> "page_size"]>>

(***************************************************************************)
(* C5: getHttpParameter(service, m, p) returns the HTTP binding (location  *)
(* and wire name) the service declares for parameter p of method m, found  *)
(* under the parameter's name, and nothing exactly when p has no declared  *)
(* binding.                                                                *)
(***************************************************************************)
C5_ParameterBindingResolved ==
    Generated =>
        \A k \in 1..Len(DeclaredMethods) :
            LET m == DeclaredMethods[k].m
            IN  \A i \in 1..Len(m.parameters) :
                    getHttpParameter(httpParameterCache, service, m.name,
                                     m.parameters[i].name)
                        = Declared(m, m.parameters[i])

\* The index is built, and a method has one parameter with no binding and
\* one, whose name snake() changes, with a binding that the lookup returns.
C5_Witness ==
    /\ Generated
    /\ service.id \in DOMAIN httpParameterCache
    /\ \E k \in 1..Len(DeclaredMethods) :
          LET m == DeclaredMethods[k].m
          IN  /\ Len(m.parameters) = 2
              /\ Len(Declared(m, m.parameters[1])) = 0
              /\ getHttpParameter(httpParameterCache, service, m.name, "id")
                    = None
              /\ getHttpParameter(httpParameterCache, service, m.name,
                                  "pageSize")
                    = Http("pageSize", "body")

(***************************************************************************)
(* C6: every conversion function a generated client operation calls by     *)
(* name is a function the mapper generator emits for the same service.     *)
(***************************************************************************)
EmittedFunctionNames == {mapperFile[i].name : i \in 1..Len(mapperFile)}

CalledFunctionNames ==
    UNION {UNION {{st.fn : st \in {b.definition[1].body[j] :
                                     j \in {j \in 1..Len(b.definition[1].body) :
                                              b.definition[1].body[j].kind
                                                 \in {"body", "return"}}}}
                  : b \in {clientFiles[i].methods[n] :
                             n \in {n \in 1..Len(clientFiles[i].methods) :
                                      Len(clientFiles[i].methods[n].definition)
                                          = 1}}}
           : i \in 1..Len(clientFiles)}

C6_ClientCallsEmittedMappers ==
    pc = "done" => CalledFunctionNames \subseteq EmittedFunctionNames


(***************************************************************************)
(* C7: every emitted mapper function, in both directions, for types and    *)
(* enums, returns its argument unchanged and raises nothing whenever a     *)
(* step of its conversion fails.                                           *)
(***************************************************************************)
C7_FailOpen ==
    Len(call) = 1 =>
        /\ call[1].out.ok
        /\ call[1].raised => call[1].out.val = call[1].arg

\* The wire-to-domain function of an enum was called on a text that is no
\* member, its body raised, and the text came back.
C7_Witness ==
    /\ Len(call) = 1
    /\ call[1].fn = <<"map_dto_to", "color">>
    /\ call[1].arg = Str("purple")
    /\ call[1].raised
    /\ call[1].out = Ok(Str("purple"))

(***************************************************************************)
(* C8 as claimed: a caster the types option gives for a type name replaces *)
(* the default cast of every property of that type name in both emitted    *)
(* functions of every type.                                                *)
(***************************************************************************)
\* The expressions the two functions of the type hold for its i-th
\* property (for an array property, the one applied to each item).
ElementExpr(e) == IF e.op = "safe_map" THEN e.args[2] ELSE e
ElementBase(e) == IF e.op = "safe_map" THEN Var(e.name[1]) ELSE e

WireToDomainExpr(type, i) ==
    EmittedFunction(mapperFile, <<"map_dto_to", snake(type.name)>>)[1]
        .body.args[i].args[1]

DomainToWireExpr(type, i) ==
    EmittedFunction(mapperFile, <<"map", snake(type.name), "to_dto">>)[1]
        .body.args[1].args[i].args[1]

IsCasterCall(e, caster) == e.op = "call" /\ e.name = <<caster>>

TypeProps ==
    Concat([t \in 1..Len(service.types) |->
              [i \in 1..Len(service.types[t].properties) |->
                 [type |-> service.types[t], i |-> i,
                  prop |-> service.types[t].properties[i]]]])

C8_CasterInBothFunctions ==
    pc = "done" =>
        \A k \in 1..Len(TypeProps) :
            LET tp == TypeProps[k]
            IN  tp.prop.typeName \in DOMAIN options.types =>
                  /\ IsCasterCall(ElementExpr(WireToDomainExpr(tp.type, tp.i)),
                                  options.types[tp.prop.typeName])
                  /\ IsCasterCall(ElementExpr(DomainToWireExpr(tp.type, tp.i)),
                                  options.types[tp.prop.typeName])

(***************************************************************************)
(* C8 as amended: a caster the types option gives for a primitive type     *)
(* name replaces the default cast of every primitive property of that type *)
(* name in the wire-to-domain function of every type, where it is applied  *)
(* to the text form of the wire value; the domain-to-wire function never   *)
(* uses it, and a non-primitive property is not affected.                  *)
(***************************************************************************)
C8_CasterInWireToDomain ==
    pc = "done" =>
        \A k \in 1..Len(TypeProps) :
            LET tp == TypeProps[k]
                w == WireToDomainExpr(tp.type, tp.i)
                d == DomainToWireExpr(tp.type, tp.i)
                base == IF tp.prop.isArray THEN Var("item")
                        ELSE Node("index", <<tp.prop.name>>, <<Var("dto")>>)
            IN  tp.prop.typeName \in DOMAIN options.types =>
                  /\ ElementExpr(d).op \in
                        {"attr", "var", "safe_to_s", "safe_utc_iso8601", "call"}
                  /\ ~IsCasterCall(ElementExpr(d),
                                   options.types[tp.prop.typeName])
                  /\ IF tp.prop.isPrimitive
                     THEN ElementExpr(w) =
                            Node("call", <<options.types[tp.prop.typeName]>>,
                                 <<Node("to_s", <<>>, <<base>>)>>)
                     ELSE ElementExpr(w) =
                            Node("call",
                                 <<"map_dto_to", snake(tp.prop.typeName)>>,
                                 <<base>>)

\* The mapper was generated with a caster configured for integer, for a type
\* that has an integer property.
C8_Witness ==
    /\ pc = "done"
    /\ "integer" \in DOMAIN options.types
    /\ \E k \in 1..Len(TypeProps) :
          /\ TypeProps[k].prop.typeName = "integer"
          /\ IsCasterCall(WireToDomainExpr(TypeProps[k].type, TypeProps[k].i),
                          options.types["integer"])

(***************************************************************************)
(* C9: in wire-to-domain, for every primitive property, under the default  *)
(* cast table or a configured caster, a wire value that is not text is     *)
(* passed through unmodified.                                              *)
(***************************************************************************)
C9_NonTextPassesThrough ==
    (Len(call) = 1 /\ call[1].dir = "wireToDomain" /\ call[1].arg.t = "hash")
    =>
        \A k \in 1..Len(TypeProps) :
            LET tp == TypeProps[k]
                v == RubyIndex(call[1].arg, tp.prop.name).val
            IN  (/\ tp.type.name = call[1].type
                 /\ tp.prop.isPrimitive
                 /\ ~tp.prop.isArray
                 /\ v.t /= "str")
                =>  Eval(mapperFile, WireToDomainExpr(tp.type, tp.i),
                         <<Entry("dto", call[1].arg)>>) = Ok(v)

(***************************************************************************)
(* C10: for a type that has only string and boolean properties and every   *)
(* domain value x of it, wireToDomain(domainToWire(x)) = x, and            *)
(* domainToWire(x) has no key for a property whose value is absent.        *)
(***************************************************************************)
CalledType == TypeNamed(call[1].type)[1]

Coinciding(type) ==
    \A i \in 1..Len(type.properties) :
        /\ type.properties[i].isPrimitive
        /\ type.properties[i].typeName \in {"string", "boolean"}

C10_RoundTrip ==
    (Len(call) = 1 /\ Len(TypeNamed(call[1].type)) = 1
       /\ Coinciding(CalledType))
    =>
        /\ (IsSome(call[1].origin)
              /\ call[1].origin[1] \in DomainObjects(CalledType))
           => call[1].out = Ok(call[1].origin[1])
        /\ (call[1].dir = "domainToWire"
              /\ call[1].arg \in DomainObjects(CalledType))
           => /\ call[1].out.ok
              /\ call[1].out.val.t = "hash"
              /\ \A i \in 1..Len(CalledType.properties) :
                    LET n == CalledType.properties[i].name
                    IN  RubyAttr(call[1].arg, snake(n)).val.t = "nil"
                        => /\ Len(Lookup(call[1].out.val.kv, Sym(n))) = 0
                           /\ Len(Lookup(call[1].out.val.kv, Str(n))) = 0

(***************************************************************************)
(* C11: for every bound method, the emitted operation holds at most one    *)
(* assignment of the request body, whatever bindings the service declares  *)
(* for the method's parameters; the assignment is guarded against an       *)
(* absent value exactly when its parameter is optional.                    *)
(***************************************************************************)
BodyStatements(e) ==
    SelectSeq(e.definition[1].body, LAMBDA st : st.kind = "body")

ParameterNamed(m, n) ==
    SelectSeq(m.parameters, LAMBDA p : buildParameterName(p) = n)

C11_BodyAssignedAtMostOnce ==
    Generated =>
        \A k \in 1..Len(DeclaredMethods) :
            LET m == DeclaredMethods[k].m
                e == Emitted(DeclaredMethods[k].int, m)
            IN  HasBinding(m) =>
                    /\ Len(BodyStatements(e)) <= 1
                    /\ \A i \in 1..Len(BodyStatements(e)) :
                          LET st == BodyStatements(e)[i]
                          IN  /\ Len(ParameterNamed(m, st.arg)) = 1
                              /\ st.guarded
                                   = ~isRequired(ParameterNamed(m, st.arg)[1])

(***************************************************************************)
(* C12: over any interleaving of getHttp and getHttpParameter calls on     *)
(* several live, unmodified Service objects, each index is built at most   *)
(* once per Service object, every call returns what a scan of the service  *)
(* passed to it returns without any cache, and the index held for a        *)
(* Service object is the index of that object and of no other.             *)
(***************************************************************************)
UncachedGetHttp(svc, methodName) ==
    MapGet(HttpPathMap(svc), snake(methodName))

UncachedGetHttpParameter(svc, methodName, parameterName) ==
    MapGet(HttpParameterMap(svc), key(methodName, parameterName))

C12_CacheTransparent ==
    /\ \A id \in DOMAIN builds :
          builds[id].path <= 1 /\ builds[id].param <= 1
    /\ \A id \in DOMAIN httpPathCache :
          httpPathCache[id] = HttpPathMap(pool[id])
    /\ \A id \in DOMAIN httpParameterCache :
          httpParameterCache[id] = HttpParameterMap(pool[id])
    /\ Len(resolved) = 1 =>
          LET r == resolved[1]
          IN  IF r.fn = "getHttp"
              THEN r.out = UncachedGetHttp(pool[r.svc], r.methodName)
              ELSE r.out = UncachedGetHttpParameter(pool[r.svc], r.methodName,
                                                    r.parameterName[1])

\* A call answered from the cache for one Service object while another
\* object, whose scan answers the same call differently, has its index
\* built too.
C12_Witness ==
    /\ Len(resolved) = 1
    /\ resolved[1].hit
    /\ resolved[1].fn = "getHttp"
    /\ IsSome(resolved[1].out)
    /\ \E other \in DOMAIN httpPathCache :
          /\ other /= resolved[1].svc
          /\ UncachedGetHttp(pool[other], resolved[1].methodName)
                /= resolved[1].out
    /\ \A id \in DOMAIN pool :
          builds[id].path = 1 /\ builds[id].param = 1

(***************************************************************************)
(* C13: in every generated operation the statements come in this order:    *)
(* the URI, then the query set on it (if any), then the request object,    *)
(* then the header assignments, then the body assignment, then exactly one *)
(* exchange statement, and last the conversion of the response body, which *)
(* is present exactly when the method declares a return type; no header or *)
(* body assignment follows the exchange.                                   *)
(***************************************************************************)
StepRank(kind) ==
    CASE kind = "uri" -> 1
      [] kind = "query" -> 2
      [] kind = "req" -> 3
      [] kind = "header" -> 4
      [] kind = "body" -> 5
      [] kind = "exchange" -> 6
      [] kind = "return" -> 7
      [] OTHER -> 0

Steps(e) == [j \in 1..Len(e.definition[1].body) |->
               e.definition[1].body[j].kind]

CountOf(ks, kind) == Cardinality({j \in 1..Len(ks) : ks[j] = kind})

C13_StepOrder ==
    Generated =>
        \A k \in 1..Len(DeclaredMethods) :
            LET m == DeclaredMethods[k].m
                e == Emitted(DeclaredMethods[k].int, m)
                ks == Steps(e)
            IN  HasBinding(m) =>
                    /\ Len(e.definition) = 1
                    /\ \A j \in 1..Len(ks) : StepRank(ks[j]) > 0
                    /\ \A i, j \in 1..Len(ks) :
                          i < j => StepRank(ks[i]) <= StepRank(ks[j])
                    /\ CountOf(ks, "uri") = 1
                    /\ CountOf(ks, "query") <= 1
                    /\ CountOf(ks, "req") = 1
                    /\ CountOf(ks, "exchange") = 1
                    /\ CountOf(ks, "return")
                          = (IF IsSome(m.returnType) THEN 1 ELSE 0)
                    /\ \A j \in 1..Len(ks) :
                          ks[j] = "exchange"
                            => e.definition[1].body[j].assign
                                  = IsSome(m.returnType)

\* An operation with a body assignment and a response conversion around
\* its exchange statement.
C13_Witness ==
    /\ Generated
    /\ \E k \in 1..Len(DeclaredMethods) :
          LET m == DeclaredMethods[k].m
              e == Emitted(DeclaredMethods[k].int, m)
          IN  /\ HasBinding(m)
              /\ Steps(e) = <<"uri", "req", "body", "exchange", "return">>

\* An operation with a query, a header assignment and no response
\* conversion.
C13_WitnessHeaders ==
    /\ Generated
    /\ \E k \in 1..Len(DeclaredMethods) :
          LET m == DeclaredMethods[k].m
              e == Emitted(DeclaredMethods[k].int, m)
          IN  /\ HasBinding(m)
              /\ Steps(e) = <<"uri", "query", "req", "header", "exchange">>

====
